---- MODULE Spec2Model ----
(***************************************************************************)
(* A model of the GPU instance registry (InstanceManager) of the engine:   *)
(* the slot vector, the identity-to-slot map, the stack of freed slot      *)
(* indices and the device buffer that mirrors the slots; and of the engine *)
(* (WgpuEngine) with its camera, driven by the frame loop of main.         *)
(*                                                                         *)
(* Slot indices and byte offsets are those of the source (0-based); the    *)
(* TLA+ sequences that hold slots and buffer records are 1-based, so slot  *)
(* index i is element i + 1.                                               *)
(***************************************************************************)
EXTENDS Integers, Sequences, FiniteSets, TLC

\* Bounds of the model.
MaxId == 2
MaxCoord == 1
MaxSlots == 3
MaxBulk == 3
MaxDoublings == 10
MaxSpeed == 2
MaxDist == 4
MaxTurns == 1
MaxDim == 3
MaxFill == 4

\* InstanceRaw::SIZE = size_of::<[[f32; 4]; 4]>() and the size of the buffer
\* that InstanceManager::new creates.
InstanceRawSIZE == 64
InitialBufferSize == 4

\* The size of the window that main creates.
WindowWidth == 801
WindowHeight == 600

\* The grid of instances that WgpuEngine::new makes.
NUM_INSTANCES_PER_ROW == 10
SPACE_BETWEEN == 3

\* size_of::<ModelVertex>() (eight f32), the size of an index (i32), and the
\* numbers of vertices and of indices of the mesh texture_to_model makes.
ModelVertexSIZE == 32
IndexSIZE == 4
NumVertices == 4
NumIndices == 7

VARIABLES
    instances,        \* Vec<Instance>
    instance_buffer,  \* wgpu::Buffer: its size in bytes and its records
    id_to_index,      \* HashMap<u128, usize>
    remove_idxs,      \* Vec<usize>, used as a stack
    call,             \* the last call: the method and the identity given
    ret,              \* what the last call returned
    device_log,       \* the device and queue calls the last call issued
    ref,              \* reference map: identity -> the instance last written
    removed,          \* identities removed and not inserted again since
    freed_order,      \* the free slot indices, in the order of their removal
    context,          \* WgpuContext: size, config and what the surface is
                      \* configured with
    camera,           \* Camera: view, projection, uniform and device buffer
    depth_texture,    \* the depth texture of the engine
    pc,               \* where main is: in WgpuEngine::new ("new", or at
                      \* one of its awaits: "adapter", "device",
                      \* "texture"), at "pump", in its loop ("events",
                      \* "update", "render"), or "exited" (returned Ok),
                      \* "failed" (returned Err) or "panicked"
    last_update,      \* the view, projection and data of the last
                      \* Camera::update
    controller,       \* CameraController: speed and the six flags
    key_down,         \* per flag: the last KeyDown/KeyUp of one of its keys
                      \* was a KeyDown
    held,             \* the mapped keys whose last event was a KeyDown
    peak_live         \* the largest number of identities live at once

vars == <<instances, instance_buffer, id_to_index, remove_idxs,
          call, ret, device_log, ref, removed, freed_order,
          context, camera, depth_texture, pc, last_update,
          controller, key_down, held, peak_live>>

registry == <<instances, instance_buffer, id_to_index, remove_idxs>>

engine == <<context, camera, depth_texture>>

keys == <<controller, key_down, held>>

----------------------------------------------------------------------------
\* Values

IDs == 0 .. (MaxId - 1)
BulkIDs == 0 .. (MaxBulk - 1)

Positions == { <<x, 0, 0>> : x \in 0 .. MaxCoord }

IdentityRotor == [s |-> 1, bv |-> <<0, 0, 0>>]

\* struct Instance { id, position, rotation, scale }
InstanceOf(ids, positions) ==
    [id : ids, position : positions, rotation : {IdentityRotor}, scale : {1}]

\* The instances the callers of the model pass: any transform for a few
\* identities, and more identities with any transform or with one transform.
Instance == InstanceOf(IDs, Positions)
BulkInstance == InstanceOf(BulkIDs, Positions)
PlainInstance == InstanceOf(BulkIDs, {<<0, 0, 0>>})

\* The instances of a caller that fills the registry: two identities, each
\* with one of two transforms.
FillIDs == {0, 1}
FillInstance == InstanceOf(FillIDs, {<<0, 0, 0>>, <<1, 0, 0>>})

\* Instance::to_raw: the matrix from_translation(position) *
\* from_angle_plane(rotation.s, rotation.bv) * from_scale(scale), kept as its
\* three factors. The identity is not part of the record.
ToRaw(i) ==
    [model |-> [translation |-> i.position,
                angle       |-> i.rotation.s,
                plane       |-> i.rotation.bv,
                scale       |-> i.scale]]

\* The content of a freshly created buffer: zeroed bytes.
ZeroRaw ==
    [model |-> [translation |-> <<0, 0, 0>>, angle |-> 0,
                plane |-> <<0, 0, 0>>, scale |-> 0]]

\* HashMap::insert, HashMap::remove
MapInsert(m, k, v) == [x \in (DOMAIN m) \cup {k} |-> IF x = k THEN v ELSE m[x]]
MapRemove(m, k) == [x \in (DOMAIN m) \ {k} |-> m[x]]
EmptyMap == [x \in {} |-> 0]

----------------------------------------------------------------------------
\* The device

\* device.create_buffer(size): size bytes, zeroed; data holds the whole
\* records that fit.
CreateBuffer(size) ==
    [size |-> size,
     data |-> [k \in 1 .. (size \div InstanceRawSIZE) |-> ZeroRaw]]

\* queue.write_buffer(buffer, offset, cast_slice(raws)): the records raws at
\* byte offset offset. A write that does not fit the buffer is rejected by
\* the device's validation and changes nothing.
WriteBuffer(buf, offset, raws) ==
    IF offset + Len(raws) * InstanceRawSIZE > buf.size
    THEN buf
    ELSE LET first == offset \div InstanceRawSIZE
         IN  [buf EXCEPT !.data =
                [k \in 1 .. Len(buf.data) |->
                    IF k > first /\ k <= first + Len(raws)
                    THEN raws[k - first]
                    ELSE buf.data[k]]]

LogWrite(offset, raws) ==
    [call |-> "write_buffer", offset |-> offset, len |-> Len(raws) * InstanceRawSIZE]
LogCreate(size) == [call |-> "create_buffer", size |-> size]
LogDestroy == [call |-> "destroy", size |-> 0]

\* Mutants of Grow: one doubling instead of the loop; growth to the exact
\* size needed.
GrowOnce(raw_size, buffer_size) ==
    IF raw_size > buffer_size THEN buffer_size * 2 ELSE buffer_size

GrowExact(raw_size, buffer_size) ==
    IF raw_size > buffer_size THEN raw_size ELSE buffer_size

\* Mutant of Grow: the loop also runs when the size needed equals the
\* capacity.
RECURSIVE GrowEager(_, _)
GrowEager(raw_size, buffer_size) ==
    IF raw_size >= buffer_size THEN GrowEager(raw_size, buffer_size * 2) ELSE buffer_size

\* while raw_size > buffer_size { buffer_size *= 2; }
RECURSIVE Grow(_, _)
Grow(raw_size, buffer_size) ==
    IF raw_size > buffer_size THEN Grow(raw_size, buffer_size * 2) ELSE buffer_size

----------------------------------------------------------------------------
\* Return values

Unit == [kind |-> "Unit"]
Ok == [kind |-> "Ok"]
OkInstance(i) == [kind |-> "Ok", instance |-> i]
Err == [kind |-> "Err"]
Panic == [kind |-> "Panic"]
NoCall == [kind |-> "None"]

----------------------------------------------------------------------------
\* InstanceManager. self is the record of the four fields; each method gives
\* the fields after the call, the value returned and the device calls issued.

Self ==
    [instances       |-> instances,
     instance_buffer |-> instance_buffer,
     id_to_index     |-> id_to_index,
     remove_idxs     |-> remove_idxs]

\* InstanceManager::new
new ==
    [self |-> [instances       |-> <<>>,
               instance_buffer |-> CreateBuffer(InitialBufferSize),
               id_to_index     |-> EmptyMap,
               remove_idxs     |-> <<>>],
     ret  |-> NoCall,
     log  |-> <<LogCreate(InitialBufferSize)>>]

\* Mutant of update_instance: an absent identity is ignored and reported
\* as a success.
update_instance_silent(self, instance) ==
    IF instance.id \in DOMAIN self.id_to_index
    THEN LET index  == self.id_to_index[instance.id]
             raw    == ToRaw(instance)
             offset == index * InstanceRawSIZE
         IN  [self |-> [self EXCEPT
                          !.instance_buffer =
                              WriteBuffer(self.instance_buffer, offset, <<raw>>),
                          !.instances[index + 1] = instance],
              ret  |-> Ok,
              log  |-> <<LogWrite(offset, <<raw>>)>>]
    ELSE [self |-> self, ret |-> Ok, log |-> <<>>]

\* Mutant of update_instance: the slot index is used as the byte offset.
update_instance_index_offset(self, instance) ==
    IF instance.id \in DOMAIN self.id_to_index
    THEN LET index  == self.id_to_index[instance.id]
             raw    == ToRaw(instance)
             offset == index
         IN  [self |-> [self EXCEPT
                          !.instance_buffer =
                              WriteBuffer(self.instance_buffer, offset, <<raw>>),
                          !.instances[index + 1] = instance],
              ret  |-> Ok,
              log  |-> <<LogWrite(offset, <<raw>>)>>]
    ELSE [self |-> self, ret |-> Err, log |-> <<>>]

\* InstanceManager::update_instance
update_instance(self, instance) ==
    IF instance.id \in DOMAIN self.id_to_index
    THEN LET index   == self.id_to_index[instance.id]
             raw     == ToRaw(instance)
             offset  == index * InstanceRawSIZE
             written == [self EXCEPT !.instance_buffer =
                            WriteBuffer(self.instance_buffer, offset, <<raw>>)]
         IN  IF index < Len(self.instances)
             THEN [self |-> [written EXCEPT !.instances[index + 1] = instance],
                   ret  |-> Ok,
                   log  |-> <<LogWrite(offset, <<raw>>)>>]
             ELSE [self |-> written,
                   ret  |-> Panic,
                   log  |-> <<LogWrite(offset, <<raw>>)>>]
    ELSE [self |-> self, ret |-> Err, log |-> <<>>]

\* Mutant of add_instance_reuse: the slot is overwritten on the host and the
\* record is not written to the device.
add_instance_reuse_no_write(self, instance) ==
    LET n     == Len(self.remove_idxs)
        index == self.remove_idxs[n]
    IN  [self |-> [self EXCEPT
                     !.remove_idxs = SubSeq(self.remove_idxs, 1, n - 1),
                     !.id_to_index = MapInsert(self.id_to_index, instance.id, index),
                     !.instances[index + 1] = instance],
         ret  |-> Unit,
         log  |-> <<>>]

\* Mutant of add_instance_reuse: the freed index is read and left on the
\* free list.
add_instance_reuse_peek(self, instance) ==
    LET n      == Len(self.remove_idxs)
        index  == self.remove_idxs[n]
        mapped == [self EXCEPT !.id_to_index = MapInsert(self.id_to_index, instance.id, index)]
        upd    == update_instance([mapped EXCEPT !.instances[index + 1] = instance],
                                  instance)
    IN  [self |-> upd.self, ret |-> Unit, log |-> upd.log]

\* Mutant of add_instance_reuse: the oldest freed index is taken, not the
\* newest.
add_instance_reuse_fifo(self, instance) ==
    LET n      == Len(self.remove_idxs)
        index  == self.remove_idxs[1]
        popped == [self EXCEPT !.remove_idxs = SubSeq(self.remove_idxs, 2, n),
                               !.id_to_index = MapInsert(self.id_to_index, instance.id, index)]
        upd    == update_instance([popped EXCEPT !.instances[index + 1] = instance],
                                  instance)
    IN  [self |-> upd.self, ret |-> Unit, log |-> upd.log]

\* InstanceManager::add_instance, the branch that reuses a freed slot
add_instance_reuse(self, instance) ==
    LET n      == Len(self.remove_idxs)
        index  == self.remove_idxs[n]
        popped == [self EXCEPT !.remove_idxs = SubSeq(self.remove_idxs, 1, n - 1),
                               !.id_to_index = MapInsert(self.id_to_index, instance.id, index)]
    IN  IF index < Len(self.instances)
        THEN LET upd == update_instance(
                            [popped EXCEPT !.instances[index + 1] = instance],
                            instance)
             IN  [self |-> upd.self,
                  ret  |-> IF upd.ret.kind = "Ok" THEN Unit ELSE Panic,
                  log  |-> upd.log]
        ELSE [self |-> popped, ret |-> Panic, log |-> <<>>]

\* Mutant of add_instance_append: a grown buffer is not given the records of
\* the slots that exist.
add_instance_append_no_reupload(self, instance) ==
    LET raw_size    == InstanceRawSIZE * (Len(self.instances) + 1)
        old_size    == self.instance_buffer.size
        grows       == raw_size > old_size
        buffer_size == Grow(raw_size, old_size)
        buffer0     == IF grows THEN CreateBuffer(buffer_size) ELSE self.instance_buffer
        log0        == IF grows THEN <<LogDestroy, LogCreate(buffer_size)>> ELSE <<>>
        raw         == ToRaw(instance)
        offset      == raw_size - InstanceRawSIZE
    IN  [self |-> [self EXCEPT
                     !.instance_buffer = WriteBuffer(buffer0, offset, <<raw>>),
                     !.id_to_index = MapInsert(self.id_to_index, instance.id,
                                               Len(self.instances)),
                     !.instances = Append(self.instances, instance)],
         ret  |-> Unit,
         log  |-> log0 \o <<LogWrite(offset, <<raw>>)>>]

\* Mutant of add_instance_append: the buffer is never replaced by a larger
\* one.
add_instance_append_no_grow(self, instance) ==
    LET raw_size == InstanceRawSIZE * (Len(self.instances) + 1)
        raw      == ToRaw(instance)
        offset   == raw_size - InstanceRawSIZE
    IN  [self |-> [self EXCEPT
                     !.instance_buffer = WriteBuffer(self.instance_buffer, offset, <<raw>>),
                     !.id_to_index = MapInsert(self.id_to_index, instance.id,
                                               Len(self.instances)),
                     !.instances = Append(self.instances, instance)],
         ret  |-> Unit,
         log  |-> <<LogWrite(offset, <<raw>>)>>]

\* Mutant of add_instance_append: the capacity is also doubled when the new
\* record exactly fills the buffer.
add_instance_append_doubles(self, instance) ==
    LET raw_size    == InstanceRawSIZE * (Len(self.instances) + 1)
        old_size    == self.instance_buffer.size
        grows       == raw_size >= old_size
        buffer_size == IF raw_size = old_size
                       THEN old_size * 2
                       ELSE Grow(raw_size, old_size)
        raws        == [k \in 1 .. Len(self.instances) |-> ToRaw(self.instances[k])]
        buffer0     == IF grows
                       THEN WriteBuffer(CreateBuffer(buffer_size), 0, raws)
                       ELSE self.instance_buffer
        log0        == IF grows
                       THEN <<LogDestroy, LogCreate(buffer_size), LogWrite(0, raws)>>
                       ELSE <<>>
        raw         == ToRaw(instance)
        offset      == raw_size - InstanceRawSIZE
    IN  [self |-> [self EXCEPT
                     !.instance_buffer = WriteBuffer(buffer0, offset, <<raw>>),
                     !.id_to_index = MapInsert(self.id_to_index, instance.id,
                                               Len(self.instances)),
                     !.instances = Append(self.instances, instance)],
         ret  |-> Unit,
         log  |-> log0 \o <<LogWrite(offset, <<raw>>)>>]

\* Mutant of add_instance_append: the buffer is also replaced and re-uploaded
\* when the new record exactly fits it.
add_instance_append_regrows(self, instance) ==
    LET raw_size    == InstanceRawSIZE * (Len(self.instances) + 1)
        old_size    == self.instance_buffer.size
        grows       == raw_size >= old_size
        buffer_size == Grow(raw_size, old_size)
        raws        == [k \in 1 .. Len(self.instances) |-> ToRaw(self.instances[k])]
        buffer0     == IF grows
                       THEN WriteBuffer(CreateBuffer(buffer_size), 0, raws)
                       ELSE self.instance_buffer
        log0        == IF grows
                       THEN <<LogDestroy, LogCreate(buffer_size), LogWrite(0, raws)>>
                       ELSE <<>>
        raw         == ToRaw(instance)
        offset      == raw_size - InstanceRawSIZE
    IN  [self |-> [self EXCEPT
                     !.instance_buffer = WriteBuffer(buffer0, offset, <<raw>>),
                     !.id_to_index = MapInsert(self.id_to_index, instance.id,
                                               Len(self.instances)),
                     !.instances = Append(self.instances, instance)],
         ret  |-> Unit,
         log  |-> log0 \o <<LogWrite(offset, <<raw>>)>>]

\* Mutant of add_instance_append: the new record is written one record too
\* far.
add_instance_append_offset(self, instance) ==
    LET raw_size    == InstanceRawSIZE * (Len(self.instances) + 1)
        old_size    == self.instance_buffer.size
        grows       == raw_size > old_size
        buffer_size == Grow(raw_size, old_size)
        raws        == [k \in 1 .. Len(self.instances) |-> ToRaw(self.instances[k])]
        buffer0     == IF grows
                       THEN WriteBuffer(CreateBuffer(buffer_size), 0, raws)
                       ELSE self.instance_buffer
        log0        == IF grows
                       THEN <<LogDestroy, LogCreate(buffer_size), LogWrite(0, raws)>>
                       ELSE <<>>
        raw         == ToRaw(instance)
        offset      == raw_size
    IN  [self |-> [self EXCEPT
                     !.instance_buffer = WriteBuffer(buffer0, offset, <<raw>>),
                     !.id_to_index = MapInsert(self.id_to_index, instance.id,
                                               Len(self.instances)),
                     !.instances = Append(self.instances, instance)],
         ret  |-> Unit,
         log  |-> log0 \o <<LogWrite(offset, <<raw>>)>>]

\* InstanceManager::add_instance, the branch that appends a slot
add_instance_append(self, instance) ==
    LET raw_size    == InstanceRawSIZE * (Len(self.instances) + 1)
        old_size    == self.instance_buffer.size
        grows       == raw_size > old_size
        buffer_size == Grow(raw_size, old_size)
        raws        == [k \in 1 .. Len(self.instances) |-> ToRaw(self.instances[k])]
        buffer0     == IF grows
                       THEN WriteBuffer(CreateBuffer(buffer_size), 0, raws)
                       ELSE self.instance_buffer
        log0        == IF grows
                       THEN <<LogDestroy, LogCreate(buffer_size), LogWrite(0, raws)>>
                       ELSE <<>>
        raw         == ToRaw(instance)
        offset      == raw_size - InstanceRawSIZE
    IN  [self |-> [self EXCEPT
                     !.instance_buffer = WriteBuffer(buffer0, offset, <<raw>>),
                     !.id_to_index = MapInsert(self.id_to_index, instance.id,
                                               Len(self.instances)),
                     !.instances = Append(self.instances, instance)],
         ret  |-> Unit,
         log  |-> log0 \o <<LogWrite(offset, <<raw>>)>>]

\* Mutant of add_instance: a slot is appended whatever the free list holds.
add_instance_always_append(self, instance) ==
    add_instance_append(self, instance)

\* InstanceManager::add_instance
add_instance(self, instance) ==
    IF Len(self.remove_idxs) > 0
    THEN add_instance_reuse(self, instance)
    ELSE add_instance_append(self, instance)

\* Mutants of remove_instance: the identity is looked up and its mapping
\* kept; the freed index is not pushed.
remove_instance_keeps_mapping(self, instance_id) ==
    IF instance_id \in DOMAIN self.id_to_index
    THEN LET index == self.id_to_index[instance_id]
         IN  [self |-> [self EXCEPT !.remove_idxs = Append(self.remove_idxs, index)],
              ret  |-> OkInstance(self.instances[index + 1]),
              log  |-> <<>>]
    ELSE [self |-> self, ret |-> Err, log |-> <<>>]

remove_instance_no_push(self, instance_id) ==
    IF instance_id \in DOMAIN self.id_to_index
    THEN LET index == self.id_to_index[instance_id]
         IN  [self |-> [self EXCEPT !.id_to_index = MapRemove(self.id_to_index, instance_id)],
              ret  |-> OkInstance(self.instances[index + 1]),
              log  |-> <<>>]
    ELSE [self |-> self, ret |-> Err, log |-> <<>>]

\* Mutants of remove_instance: the last slot is moved into the freed slot
\* (Vec::swap_remove) and its identity remapped; the freed record is zeroed
\* on the device.
remove_instance_swap(self, instance_id) ==
    IF instance_id \in DOMAIN self.id_to_index
    THEN LET index == self.id_to_index[instance_id]
             n     == Len(self.instances)
             last  == self.instances[n]
             moved == [k \in 1 .. (n - 1) |->
                         IF k = index + 1 THEN last ELSE self.instances[k]]
             map0  == MapRemove(self.id_to_index, instance_id)
             map1  == IF index + 1 < n /\ last.id \in DOMAIN map0
                      THEN [map0 EXCEPT ![last.id] = index]
                      ELSE map0
         IN  [self |-> [self EXCEPT !.instances = moved, !.id_to_index = map1],
              ret  |-> OkInstance(self.instances[index + 1]),
              log  |-> <<>>]
    ELSE [self |-> self, ret |-> Err, log |-> <<>>]

remove_instance_clears(self, instance_id) ==
    IF instance_id \in DOMAIN self.id_to_index
    THEN LET index  == self.id_to_index[instance_id]
             offset == index * InstanceRawSIZE
         IN  [self |-> [self EXCEPT
                          !.id_to_index = MapRemove(self.id_to_index, instance_id),
                          !.remove_idxs = Append(self.remove_idxs, index),
                          !.instance_buffer =
                              WriteBuffer(self.instance_buffer, offset, <<ZeroRaw>>)],
              ret  |-> OkInstance(self.instances[index + 1]),
              log  |-> <<LogWrite(offset, <<ZeroRaw>>)>>]
    ELSE [self |-> self, ret |-> Err, log |-> <<>>]

\* InstanceManager::remove_instance
remove_instance(self, instance_id) ==
    IF instance_id \in DOMAIN self.id_to_index
    THEN LET index   == self.id_to_index[instance_id]
             unmapped == [self EXCEPT !.id_to_index = MapRemove(self.id_to_index, instance_id)]
         IN  IF index < Len(self.instances)
             THEN [self |-> [unmapped EXCEPT !.remove_idxs = Append(self.remove_idxs, index)],
                   ret  |-> OkInstance(self.instances[index + 1]),
                   log  |-> <<>>]
             ELSE [self |-> unmapped, ret |-> Panic, log |-> <<>>]
    ELSE [self |-> self, ret |-> Err, log |-> <<>>]

----------------------------------------------------------------------------
\* The camera. A matrix is kept as the expression that computes it, an f32
\* quotient of two integers as the reduced fraction, and the bytes of a
\* value as the value they are the bytes of.

RECURSIVE GCD(_, _)
GCD(a, b) == IF b = 0 THEN a ELSE GCD(b, a % b)

\* a as f32 / b as f32, for a and b below 2^24
Ratio(a, b) == [num |-> a \div GCD(a, b), den |-> b \div GCD(a, b)]

WindowSize(width, height) == [width |-> width, height |-> height]

\* The window that WgpuContext::new reads the size of.
Window == WindowSize(WindowWidth, WindowHeight)

\* ultraviolet::Vec3. A vector lies on the line of the integer vector v:
\* it is (a * |v| + k) * v / |v|, that is a times v plus k times the unit
\* vector of v, turned by rot radians in the xz plane; or it is NaN in every
\* component. |v| is the Euclidean length sqrt(v.v), which is kept exact: a
\* length is the scalar coef * sqrt(root) + plus. The rounding of f32 is
\* left out.
Vec3(x, y, z) == [v |-> <<x, y, z>>, a |-> 1, k |-> 0, rot |-> 0, nan |-> FALSE]
NaNVec3 == [v |-> <<0, 0, 0>>, a |-> 0, k |-> 0, rot |-> 0, nan |-> TRUE]

Abs(x) == IF x < 0 THEN -x ELSE x
Sign(x) == IF x < 0 THEN -1 ELSE IF x > 0 THEN 1 ELSE 0

\* v.v
Dot(v) == v[1] * v[1] + v[2] * v[2] + v[3] * v[3]

IsSquare(n) == \E r \in 0 .. n : r * r = n
Sqrt(n) == CHOOSE r \in 0 .. n : r * r = n

\* The scalar coef * sqrt(root) + plus, an integer where the root is one.
Scalar(coef, root, plus) ==
    IF IsSquare(root)
    THEN [coef |-> 0, root |-> 0, plus |-> coef * Sqrt(root) + plus]
    ELSE [coef |-> coef, root |-> root, plus |-> plus]

\* s > 0, by comparing squares
Positive(s) ==
    CASE s.coef >= 0 /\ s.plus >= 0 -> (s.coef > 0 /\ s.root > 0) \/ s.plus > 0
      [] s.coef >= 0 /\ s.plus < 0  -> s.coef * s.coef * s.root > s.plus * s.plus
      [] s.coef < 0 /\ s.plus > 0   -> s.plus * s.plus > s.coef * s.coef * s.root
      [] s.coef < 0 /\ s.plus <= 0  -> FALSE

ScalarNeg(s) == [s EXCEPT !.coef = -s.coef, !.plus = -s.plus]

\* s > c, for an integer c
ScalarGreater(s, c) == Positive([s EXCEPT !.plus = s.plus - c])

\* The signed length of a vector along v.
Length(x) == Scalar(x.a, Dot(x.v), x.k)

IsZero(x) == ~x.nan /\ ~Positive(Length(x)) /\ ~Positive(ScalarNeg(Length(x)))

\* a + b and a - b, of vectors on one line turned alike, or of which one is
\* zero
Vec3Add(x, y) ==
    IF x.nan \/ y.nan THEN NaNVec3
    ELSE IF IsZero(y) THEN x
    ELSE IF IsZero(x) THEN y
    ELSE CASE x.v = y.v /\ x.rot = y.rot ->
                [x EXCEPT !.a = x.a + y.a, !.k = x.k + y.k]

Vec3Neg(x) == [x EXCEPT !.a = -x.a, !.k = -x.k]
Vec3Sub(x, y) == Vec3Add(x, Vec3Neg(y))

\* a * s, for an integer s
Vec3Scale(x, s) == [x EXCEPT !.a = x.a * s, !.k = x.k * s]

\* Vec3::mag: sqrt(x * x + y * y + z * z), the absolute value of the length
\* along v.
mag(x) == IF Positive(Length(x)) THEN Length(x) ELSE ScalarNeg(Length(x))

\* Vec3::normalized: the vector over its magnitude, the unit vector of v or
\* its opposite; the zero vector normalizes to NaN (0 / 0).
normalized(x) ==
    IF x.nan \/ IsZero(x)
    THEN NaNVec3
    ELSE [x EXCEPT !.a = 0, !.k = IF Positive(Length(x)) THEN 1 ELSE -1]

\* Rotor3::from_rotation_xz and Vec3::rotated_by
from_rotation_xz(angle) == [plane |-> "xz", angle |-> angle]

rotated_by(a, rotor) == IF a.nan THEN a ELSE [a EXCEPT !.rot = @ + rotor.angle]

\* LookAt::new and LookAt::view_mat
LookAt_new(eye, target, up) == [eye |-> eye, target |-> target, up |-> up]

view_mat(self) ==
    [mat |-> "look_at", eye |-> self.eye, target |-> self.target, up |-> self.up]

\* LookAt::go_forward. A comparison with NaN is false.
go_forward(self, speed) ==
    LET forward0    == Vec3Sub(self.target, self.eye)
        forward_mag == mag(forward0)
        forward     == normalized(forward0)
        eye1        == IF ~forward0.nan /\ ScalarGreater(forward_mag, speed)
                       THEN Vec3Add(self.eye, Vec3Scale(forward, speed))
                       ELSE self.eye
    IN  [self EXCEPT !.eye = Vec3Add(eye1, Vec3Scale(forward, speed))]

\* LookAt::rotate_eye
rotate_eye(self, rot) ==
    LET forward == Vec3Sub(self.target, self.eye)
    IN  [self EXCEPT !.eye = Vec3Sub(self.target, rotated_by(forward, rot))]

\* PerspectiveProjection::new, proj_matrix and resize
PerspectiveProjection_new(aspect, fovy, znear, zfar) ==
    [kind |-> "Perspective", aspect |-> aspect, fovy |-> [to_radians |-> fovy],
     znear |-> znear, zfar |-> zfar]

PerspectiveProjection_proj_matrix(self) ==
    [mat |-> "perspective_wgpu_dx", fovy |-> self.fovy, aspect |-> self.aspect,
     znear |-> self.znear, zfar |-> self.zfar]

PerspectiveProjection_resize(self, width, height) ==
    [self EXCEPT !.aspect = Ratio(width, height)]

\* OrthographicProjection::new, proj_matrix and resize
OrthographicProjection_new(size, znear, zfar) ==
    [kind |-> "Orthographic", left |-> 0, right |-> size.width, bottom |-> 0,
     top |-> size.height, znear |-> znear, zfar |-> zfar]

OrthographicProjection_proj_matrix(self) ==
    [mat |-> "orthographic_wgpu_dx", left |-> self.left, right |-> self.right,
     bottom |-> self.bottom, top |-> self.top, znear |-> self.znear,
     zfar |-> self.zfar]

\* Mutant of OrthographicProjection_resize: the volume is centred on the
\* origin.
OrthographicProjection_resize_centred(self, width, height) ==
    [self EXCEPT !.left = -width, !.right = width, !.bottom = -height, !.top = height]

OrthographicProjection_resize(self, width, height) ==
    [self EXCEPT !.right = width, !.top = height]

\* The methods of the Projection trait, on a Box<dyn Projection>
proj_matrix(self) ==
    IF self.kind = "Orthographic"
    THEN OrthographicProjection_proj_matrix(self)
    ELSE PerspectiveProjection_proj_matrix(self)

projection_resize(self, width, height) ==
    IF self.kind = "Orthographic"
    THEN OrthographicProjection_resize(self, width, height)
    ELSE PerspectiveProjection_resize(self, width, height)

Mat4Identity == [mat |-> "identity"]
Mat4Mul(a, b) == [mat |-> "mul", lhs |-> a, rhs |-> b]

\* Mat4 -> [[f32; 4]; 4]
Mat4Into(m) == [columns |-> m]

\* CameraUniform::new and update_view_proj
CameraUniform_new == [view_proj |-> Mat4Into(Mat4Identity)]

update_view_proj(self, matrix) == [self EXCEPT !.view_proj = Mat4Into(matrix)]

\* bytemuck::cast_slice(&[uniform])
cast_slice(uniforms) == [bytes_of |-> uniforms]

\* size_of::<CameraUniform>()
CameraUniformSIZE == 64

LogCameraWrite(offset, data) ==
    [call |-> "write_buffer", buffer |-> "camera", offset |-> offset,
     len |-> CameraUniformSIZE * Len(data.bytes_of), data |-> data]

\* Camera::new
Camera_new(view, projection) ==
    [view       |-> view,
     projection |-> projection,
     uniform    |-> CameraUniform_new,
     buffer     |-> cast_slice(<<CameraUniform_new>>)]

\* Camera::build_view_proj_matrix
build_view_proj_matrix(self) ==
    LET view == view_mat(self.view)
        proj == proj_matrix(self.projection)
    IN  Mat4Mul(proj, view)

\* Mutant of camera_update: the buffer is written only when the uniform has
\* changed.
camera_update_dirty(self) ==
    LET uniform == update_view_proj(self.uniform, build_view_proj_matrix(self))
        data    == cast_slice(<<uniform>>)
    IN  IF uniform = self.uniform
        THEN [self |-> self, log |-> <<>>]
        ELSE [self |-> [self EXCEPT !.uniform = uniform, !.buffer = data],
              log  |-> <<LogCameraWrite(0, data)>>]

\* Camera::update
camera_update(self) ==
    LET uniform == update_view_proj(self.uniform, build_view_proj_matrix(self))
        data    == cast_slice(<<uniform>>)
    IN  [self |-> [self EXCEPT !.uniform = uniform, !.buffer = data],
         log  |-> <<LogCameraWrite(0, data)>>]

----------------------------------------------------------------------------
\* CameraController

Flags == {"is_up_pressed", "is_down_pressed", "is_forward_pressed",
          "is_backward_pressed", "is_left_pressed", "is_right_pressed"}

\* The keycode of a key event: a mapped key, another key, or None.
MappedKeycodes == {"Space", "LShift", "W", "Up", "A", "Left", "S", "Down", "D", "Right"}
Keycodes == MappedKeycodes \cup {"Q", "None"}

\* The flag a keycode is mapped to, "none" for a keycode that is not mapped.
FlagOf(keycode) ==
    CASE keycode = "Space" -> "is_up_pressed"
      [] keycode = "LShift" -> "is_down_pressed"
      [] keycode \in {"W", "Up"} -> "is_forward_pressed"
      [] keycode \in {"A", "Left"} -> "is_left_pressed"
      [] keycode \in {"S", "Down"} -> "is_backward_pressed"
      [] keycode \in {"D", "Right"} -> "is_right_pressed"
      [] OTHER -> "none"

Bool(b) == [kind |-> "Bool", value |-> b]

\* CameraController::new
CameraController_new(speed) ==
    [speed |-> speed,
     is_up_pressed |-> FALSE, is_down_pressed |-> FALSE,
     is_forward_pressed |-> FALSE, is_backward_pressed |-> FALSE,
     is_left_pressed |-> FALSE, is_right_pressed |-> FALSE]

\* Mutant of process_events: a KeyUp clears the flag only for the first key
\* of each pair of keys.
process_events_first_key_up(self, event) ==
    IF event.type = "KeyDown" /\ FlagOf(event.keycode) # "none"
    THEN [self |-> [self EXCEPT ![FlagOf(event.keycode)] = TRUE], ret |-> Bool(TRUE)]
    ELSE IF event.type = "KeyUp" /\ FlagOf(event.keycode) # "none"
    THEN IF event.keycode \in {"Up", "Left", "Down", "Right"}
         THEN [self |-> self, ret |-> Bool(TRUE)]
         ELSE [self |-> [self EXCEPT ![FlagOf(event.keycode)] = FALSE],
               ret  |-> Bool(TRUE)]
    ELSE [self |-> self, ret |-> Bool(FALSE)]

\* CameraController::process_events
process_events(self, event) ==
    IF event.type = "KeyDown"
    THEN IF FlagOf(event.keycode) # "none"
         THEN [self |-> [self EXCEPT ![FlagOf(event.keycode)] = TRUE],
               ret  |-> Bool(TRUE)]
         ELSE [self |-> self, ret |-> Bool(FALSE)]
    ELSE IF event.type = "KeyUp"
    THEN IF FlagOf(event.keycode) # "none"
         THEN [self |-> [self EXCEPT ![FlagOf(event.keycode)] = FALSE],
               ret  |-> Bool(TRUE)]
         ELSE [self |-> self, ret |-> Bool(FALSE)]
    ELSE [self |-> self, ret |-> Bool(FALSE)]

\* CameraController::update_camera
update_camera(self, cam) ==
    LET view0 == cam.view
        view1 == IF self.is_forward_pressed THEN go_forward(view0, self.speed) ELSE view0
        view2 == IF self.is_backward_pressed THEN go_forward(view1, -self.speed) ELSE view1
        view3 == IF self.is_right_pressed
                 THEN rotate_eye(view2, from_rotation_xz(self.speed))
                 ELSE view2
        view4 == IF self.is_left_pressed
                 THEN rotate_eye(view3, from_rotation_xz(-self.speed))
                 ELSE view3
    IN  [cam EXCEPT !.view = view4]

----------------------------------------------------------------------------
\* WgpuEngine. self is the record of the fields the model keeps; each method
\* gives the fields after the call, the value returned and the device calls
\* issued.

Eng == [context |-> context, camera |-> camera, depth_texture |-> depth_texture]

\* Texture::create_depth_texture: a texture of the size of the configuration.
create_depth_texture(config) == [width |-> config.width, height |-> config.height]

LogConfigure(config) ==
    [call |-> "configure", width |-> config.width, height |-> config.height]
LogDepthTexture(config) ==
    [call |-> "create_depth_texture", width |-> config.width, height |-> config.height]

LogCameraCreate ==
    [call |-> "create_buffer_init", buffer |-> "camera", size |-> CameraUniformSIZE]

\* A value that does not exist: the engine of a construction that has not
\* returned or has failed, a surface before its first configure.
Absent == [kind |-> "Absent"]
NoEngine == [context |-> Absent, camera |-> Absent, depth_texture |-> Absent]

\* What the fallible steps of the construction do: create_surface_unsafe
\* returns an Err and from_window(..).unwrap() panics; request_adapter and
\* request_device resolve to a value whose unwrap() panics, the indexing of
\* the surface capabilities panics on an empty list; load_texture resolves
\* to an Err.
NewOutcome ==
    [surface : {"Ok", "Err", "Panic"}, adapter : {"Ok", "Panic"},
     device : {"Ok", "Panic"}, texture : {"Ok", "Err"}]
AllOk == [surface |-> "Ok", adapter |-> "Ok", device |-> "Ok", texture |-> "Ok"]

\* WgpuContext::new: the size of the window, the surface not yet configured.
WgpuContext_new(window, outcome) ==
    LET size   == WindowSize(window.width, window.height)
        config == [width |-> size.width, height |-> size.height]
    IN  IF outcome.surface = "Panic" THEN [self |-> Absent, ret |-> Panic, log |-> <<>>]
        ELSE IF outcome.surface = "Err" THEN [self |-> Absent, ret |-> Err, log |-> <<>>]
        ELSE IF outcome.adapter = "Panic" THEN [self |-> Absent, ret |-> Panic, log |-> <<>>]
        ELSE IF outcome.device = "Panic" THEN [self |-> Absent, ret |-> Panic, log |-> <<>>]
        ELSE [self |-> [size |-> size, config |-> config, surface |-> Absent],
              ret  |-> Ok,
              log  |-> <<>>]

\* The camera WgpuEngine::new builds for a context.
new_camera(ctx) ==
    Camera_new(LookAt_new(Vec3(0, 3, 10), Vec3(0, 0, 0), Vec3(0, 1, 0)),
               PerspectiveProjection_new(Ratio(ctx.size.width, ctx.size.height),
                                         45, Ratio(1, 10), 100))

\* Rotor3::from_rotation_between(from, to), kept as the expression
from_rotation_between(from, to) ==
    LET rotor == [rotor |-> "from_rotation_between", from |-> from, to |-> to]
    IN  [s |-> [part |-> "s", of |-> rotor], bv |-> [part |-> "bv", of |-> rotor]]

\* The instance WgpuEngine::new makes for row i and column j of its grid.
new_instance(i, j) ==
    LET x == SPACE_BETWEEN * (i - NUM_INSTANCES_PER_ROW \div 2)
        z == SPACE_BETWEEN * (j - NUM_INSTANCES_PER_ROW \div 2)
        position == <<x, 0, z>>
        rotation == IF mag(Vec3(x, 0, z)) = Scalar(0, 0, 0)
                    THEN IdentityRotor
                    ELSE from_rotation_between(<<0, 0, 1>>, [normalized |-> position])
    IN  [id |-> i * NUM_INSTANCES_PER_ROW + j, position |-> position,
         rotation |-> rotation, scale |-> 1]

\* The loops of WgpuEngine::new over its grid. mgr.self is the registry and
\* mgr.log every device call issued so far.
\* instance_manager.add_instance(&context.device, &context.queue, instance)
add_new_instance(mgr, i, j) ==
    LET added == add_instance(mgr.self, new_instance(i, j))
    IN  [self |-> added.self, log |-> mgr.log \o added.log]

\* The element of a set of one element.
The(S) == CHOOSE x \in S : TRUE

\* for j in j..NUM_INSTANCES_PER_ROW, in row i: the rest of the row runs on
\* the value the step has left.
RECURSIVE add_row(_, _, _)
add_row(mgr, i, j) ==
    IF j >= NUM_INSTANCES_PER_ROW THEN mgr
    ELSE The({ add_row(next, i, j + 1) : next \in {add_new_instance(mgr, i, j)} })

\* for i in i..NUM_INSTANCES_PER_ROW
RECURSIVE add_rows(_, _)
add_rows(mgr, i) ==
    IF i >= NUM_INSTANCES_PER_ROW THEN mgr
    ELSE The({ add_rows(next, i + 1) : next \in {add_row(mgr, i, 0)} })

\* The registry WgpuEngine::new fills and drops when it returns.
new_instance_manager == add_rows([self |-> new.self, log |-> new.log], 0)

\* device.create_buffer_init of a mesh buffer
LogMeshCreate(label, kind, size) ==
    [call |-> "create_buffer_init", buffer |-> <<label, kind>>, size |-> size]

\* model::texture_to_model: the vertex buffer and the index buffer of the
\* mesh, created with their contents.
texture_to_model(label) ==
    [log |-> <<LogMeshCreate(label, "Vertex Buffer", NumVertices * ModelVertexSIZE),
               LogMeshCreate(label, "Index Buffer", NumIndices * IndexSIZE)>>]

\* The device calls of WgpuEngine::new after load_texture has resolved: the
\* buffers of the model, the registry, the depth texture and the
\* configuration of the surface.
new_log_after_texture(ctx) ==
    texture_to_model("box").log
        \o new_instance_manager.log
        \o <<LogDepthTexture(ctx.config), LogConfigure(ctx.config)>>

\* WgpuEngine::new
engine_new(window, outcome) ==
    LET made == WgpuContext_new(window, outcome)
        ctx  == made.self
    IN  IF made.ret.kind # "Ok"
        THEN [self |-> NoEngine, ret |-> made.ret, log |-> made.log]
        ELSE IF outcome.texture = "Err"
        THEN [self |-> NoEngine, ret |-> Err, log |-> made.log \o <<LogCameraCreate>>]
        ELSE [self |-> [context       |-> [ctx EXCEPT !.surface = ctx.config],
                        camera        |-> new_camera(ctx),
                        depth_texture |-> create_depth_texture(ctx.config)],
              ret  |-> Ok,
              log  |-> made.log \o <<LogCameraCreate>> \o new_log_after_texture(ctx)]

\* The engine of a construction in which every step succeeds.
Built == engine_new(Window, AllOk).self

\* Mutants of resize: the guard lets a size through that has one dimension
\* positive; the depth texture is not rebuilt.
resize_either_positive(self, new_size) ==
    IF new_size.width > 0 \/ new_size.height > 0
    THEN LET config == [self.context.config EXCEPT !.width = new_size.width,
                                                   !.height = new_size.height]
         IN  [self |-> [context       |-> [size |-> new_size, config |-> config,
                                           surface |-> config],
                        camera        |-> [self.camera EXCEPT !.projection =
                                              projection_resize(@, config.width,
                                                                config.height)],
                        depth_texture |-> create_depth_texture(config)],
              ret  |-> Unit,
              log  |-> <<LogConfigure(config), LogDepthTexture(config)>>]
    ELSE [self |-> self, ret |-> Unit, log |-> <<>>]

resize_keeps_depth_texture(self, new_size) ==
    IF new_size.width > 0 /\ new_size.height > 0
    THEN LET config == [self.context.config EXCEPT !.width = new_size.width,
                                                   !.height = new_size.height]
         IN  [self |-> [context       |-> [size |-> new_size, config |-> config,
                                           surface |-> config],
                        camera        |-> [self.camera EXCEPT !.projection =
                                              projection_resize(@, config.width,
                                                                config.height)],
                        depth_texture |-> self.depth_texture],
              ret  |-> Unit,
              log  |-> <<LogConfigure(config)>>]
    ELSE [self |-> self, ret |-> Unit, log |-> <<>>]

\* WgpuEngine::resize
resize(self, new_size) ==
    IF new_size.width > 0 /\ new_size.height > 0
    THEN LET config == [self.context.config EXCEPT !.width = new_size.width,
                                                   !.height = new_size.height]
         IN  [self |-> [context       |-> [size |-> new_size, config |-> config,
                                           surface |-> config],
                        camera        |-> [self.camera EXCEPT !.projection =
                                              projection_resize(@, config.width,
                                                                config.height)],
                        depth_texture |-> create_depth_texture(config)],
              ret  |-> Unit,
              log  |-> <<LogConfigure(config), LogDepthTexture(config)>>]
    ELSE [self |-> self, ret |-> Unit, log |-> <<>>]

\* WgpuEngine::update
engine_update(self) ==
    LET upd == camera_update(self.camera)
    IN  [self |-> [self EXCEPT !.camera = upd.self], ret |-> Ok, log |-> upd.log]

\* The input method that main calls on the engine for every event: it
\* changes none of the fields the model keeps.
input(self, event) == [self |-> self, ret |-> Unit, log |-> <<>>]

\* DrawModel::draw_instances: one draw call for the registry.
draw_instances(instance_manager) ==
    [call |-> "draw_instances", registry |-> instance_manager]

\* wgpu::Surface::get_current_texture: a texture or a SurfaceError.
SurfaceError == {"Timeout", "Outdated", "Lost", "OutOfMemory"}
Acquisition == {"Ok"} \cup SurfaceError

\* Mutant of render: the registries are drawn last to first and the frame
\* is presented before the commands are submitted.
render_reversed(self, to_draw, acquired) ==
    IF acquired \in SurfaceError
    THEN [self |-> self,
          ret  |-> [kind |-> "Err", error |-> acquired],
          log  |-> <<[call |-> "get_current_texture", result |-> acquired]>>]
    ELSE [self |-> self,
          ret  |-> Ok,
          log  |-> <<[call |-> "get_current_texture", result |-> acquired],
                     [call |-> "create_view"],
                     [call |-> "create_command_encoder"],
                     [call |-> "begin_render_pass",
                      color |-> self.context.surface,
                      depth |-> self.depth_texture,
                      clear_color |-> <<Ratio(1, 10), Ratio(2, 10), Ratio(3, 10), 1>>,
                      clear_depth |-> 1],
                     [call |-> "set_pipeline"]>>
                   \o [k \in 1 .. Len(to_draw) |->
                          draw_instances(to_draw[Len(to_draw) + 1 - k])]
                   \o <<[call |-> "end_render_pass"],
                        [call |-> "present"],
                        [call |-> "submit", command_buffers |-> 1]>>]

\* WgpuEngine::render; acquired is what get_current_texture gives.
render(self, to_draw, acquired) ==
    IF acquired \in SurfaceError
    THEN [self |-> self,
          ret  |-> [kind |-> "Err", error |-> acquired],
          log  |-> <<[call |-> "get_current_texture", result |-> acquired]>>]
    ELSE [self |-> self,
          ret  |-> Ok,
          log  |-> <<[call |-> "get_current_texture", result |-> acquired],
                     [call |-> "create_view"],
                     [call |-> "create_command_encoder"],
                     [call |-> "begin_render_pass",
                      color |-> self.context.surface,
                      depth |-> self.depth_texture,
                      clear_color |-> <<Ratio(1, 10), Ratio(2, 10), Ratio(3, 10), 1>>,
                      clear_depth |-> 1],
                     [call |-> "set_pipeline"]>>
                   \o [k \in 1 .. Len(to_draw) |-> draw_instances(to_draw[k])]
                   \o <<[call |-> "end_render_pass"],
                        [call |-> "submit", command_buffers |-> 1],
                        [call |-> "present"]>>]

----------------------------------------------------------------------------
\* The state machine: one action per call of the registry's interface.

\* The call's outcome becomes the next state.
Apply(out) ==
    /\ instances' = out.self.instances
    /\ instance_buffer' = out.self.instance_buffer
    /\ id_to_index' = out.self.id_to_index
    /\ remove_idxs' = out.self.remove_idxs
    /\ ret' = out.ret
    /\ device_log' = out.log
    /\ peak_live' = IF Cardinality(DOMAIN id_to_index') > peak_live
                    THEN Cardinality(DOMAIN id_to_index')
                    ELSE peak_live
    /\ UNCHANGED <<engine, pc, last_update, keys>>

\* The registry after InstanceManager::new.
InitRegistry ==
    /\ instances = new.self.instances
    /\ instance_buffer = new.self.instance_buffer
    /\ id_to_index = new.self.id_to_index
    /\ remove_idxs = new.self.remove_idxs
    /\ call = [op |-> "new", id |-> 0]
    /\ ret = new.ret
    /\ device_log = new.log
    /\ ref = EmptyMap
    /\ removed = {}
    /\ freed_order = <<>>
    /\ peak_live = 0

\* The engine after WgpuEngine::new, with main at its event loop; cam is the
\* camera of the engine.
InitEngine(cam) ==
    /\ context = Built.context
    /\ camera = cam
    /\ depth_texture = Built.depth_texture
    /\ pc = "events"
    /\ last_update = [valid |-> FALSE, repeat |-> FALSE,
                      view |-> camera.view, projection |-> camera.projection,
                      data |-> camera.buffer]

\* No key event has been processed.
InitKeys(speed) ==
    /\ controller = CameraController_new(speed)
    /\ key_down = [flag \in Flags |-> FALSE]
    /\ held = {}

Init ==
    /\ InitRegistry
    /\ InitEngine(Built.camera)
    /\ InitKeys(1)

\* The sequence s without the elements equal to x.
Without(s, x) == SelectSeq(s, LAMBDA e : e # x)

\* A call is made only by a program that has not panicked.
CanCall == ret.kind # "Panic"

\* add_instance; the slot vector is kept within max slots.
AddInstanceUpTo(instance, max) ==
    /\ CanCall
    /\ Len(remove_idxs) > 0 \/ Len(instances) < max
    /\ Apply(add_instance(Self, instance))
    /\ call' = [op |-> "add_instance", id |-> instance.id]
    /\ ref' = MapInsert(ref, instance.id, instance)
    /\ removed' = removed \ {instance.id}
    /\ freed_order' = Without(freed_order, id_to_index'[instance.id])

\* add_instance; the slot vector is kept within the model's bound.
AddInstance(instance) == AddInstanceUpTo(instance, MaxSlots)

\* add_instance of a caller that fills the registry
AddFill(instance) == AddInstanceUpTo(instance, MaxFill)

UpdateInstance(instance) ==
    /\ CanCall
    /\ Apply(update_instance(Self, instance))
    /\ call' = [op |-> "update_instance", id |-> instance.id]
    /\ ref' = IF ret'.kind = "Ok" THEN MapInsert(ref, instance.id, instance) ELSE ref
    /\ UNCHANGED <<removed, freed_order>>

RemoveInstance(instance_id) ==
    /\ CanCall
    /\ Apply(remove_instance(Self, instance_id))
    /\ call' = [op |-> "remove_instance", id |-> instance_id]
    /\ ref' = IF ret'.kind = "Ok" THEN MapRemove(ref, instance_id) ELSE ref
    /\ removed' = IF ret'.kind = "Ok" THEN removed \cup {instance_id} ELSE removed
    /\ freed_order' = IF ret'.kind = "Ok"
                      THEN Append(freed_order, id_to_index[instance_id])
                      ELSE freed_order

\* An insert of an identity that is not live.
AddUnique(instance) ==
    /\ instance.id \notin DOMAIN id_to_index
    /\ AddInstance(instance)

\* Any caller: nothing checks an identity before it is inserted.
Next ==
    \/ \E instance \in Instance : AddInstance(instance)
    \/ \E instance \in Instance : UpdateInstance(instance)
    \/ \E instance_id \in IDs : RemoveInstance(instance_id)

Spec == Init /\ [][Next]_vars

\* A caller that inserts only identities that are not live.
NextUnique ==
    \/ \E instance \in Instance : AddUnique(instance)
    \/ \E instance \in Instance : UpdateInstance(instance)
    \/ \E instance_id \in IDs : RemoveInstance(instance_id)

SpecUnique == Init /\ [][NextUnique]_vars

\* Any caller, one that fills the registry until an append finds room left by
\* the growth before it: the fourth slot fits the four records of the third
\* growth.
NextFill ==
    \/ \E instance \in FillInstance : AddFill(instance)
    \/ \E instance \in FillInstance : UpdateInstance(instance)
    \/ \E instance_id \in FillIDs : RemoveInstance(instance_id)

SpecFill == Init /\ [][NextFill]_vars

\* A caller that inserts distinct identities and never removes.
NextInsertOnly ==
    \/ \E instance \in BulkInstance : AddUnique(instance)
    \/ \E instance \in BulkInstance : UpdateInstance(instance)

SpecInsertOnly == Init /\ [][NextInsertOnly]_vars

\* A caller that inserts, updates and removes more identities, all with the
\* same transform.
NextBulk ==
    \/ \E instance \in PlainInstance : AddUnique(instance)
    \/ \E instance \in PlainInstance : UpdateInstance(instance)
    \/ \E instance_id \in BulkIDs : RemoveInstance(instance_id)

SpecBulk == Init /\ [][NextBulk]_vars

\* The frame loop of main.

\* The payloads of the Resized events and the other events of the window
\* system. The sizes are the non-negative i32 that `as u32` keeps.
ResizedWidths == {0, 640, WindowWidth}
ResizedHeights == {0, 480, WindowHeight}
Event ==
    {[type |-> "Quit"], [type |-> "KeyDown"]}
        \cup { [type |-> "Resized", width |-> w, height |-> h] :
                  w \in ResizedWidths, h \in ResizedHeights }

\* The registries main hands to render.
ToDraw == {<<>>, <<"a">>, <<"a", "b">>, <<"b", "a">>}

\* One step of the future of WgpuEngine::new, from an await (or the call) to
\* the next await: on Ok the future suspends where main's pc says, an Err is
\* returned through the ? of main, a panic unwinds main. The engine exists
\* when the last step has returned it.
NewStep(step, outcome, next, log) ==
    LET out == engine_new(Window, [AllOk EXCEPT ![step] = outcome])
    IN  /\ pc' = IF out.ret.kind = "Ok" THEN next
                 ELSE IF out.ret.kind = "Err" THEN "failed"
                 ELSE "panicked"
        /\ ret' = IF out.ret.kind = "Ok" /\ step # "texture" THEN NoCall ELSE out.ret
        /\ call' = [op |-> "engine_new", id |-> 0, step |-> step]
        /\ device_log' = IF out.ret.kind = "Ok" THEN log ELSE <<>>
        /\ IF step = "texture"
           THEN /\ context' = out.self.context
                /\ camera' = out.self.camera
                /\ depth_texture' = out.self.depth_texture
                /\ last_update' = IF out.ret.kind = "Ok"
                                  THEN [last_update EXCEPT
                                           !.view = out.self.camera.view,
                                           !.projection = out.self.camera.projection,
                                           !.data = out.self.camera.buffer]
                                  ELSE last_update
           ELSE UNCHANGED <<engine, last_update>>
        /\ UNCHANGED <<registry, ref, removed, freed_order, peak_live, keys>>

\* WgpuContext::new up to the await of request_adapter
NewSurface(outcome) ==
    /\ pc = "new"
    /\ NewStep("surface", outcome, "adapter", <<>>)

\* request_adapter(..).await.unwrap(), up to the await of request_device
NewAdapter(outcome) ==
    /\ pc = "adapter"
    /\ NewStep("adapter", outcome, "device", <<>>)

\* request_device(..).await.unwrap(), the rest of WgpuContext::new and
\* WgpuEngine::new up to the await of load_texture
NewDevice(outcome) ==
    /\ pc = "device"
    /\ NewStep("device", outcome, "texture", <<LogCameraCreate>>)

\* load_texture(..).await? and the rest of WgpuEngine::new
NewTexture(outcome) ==
    /\ pc = "texture"
    /\ NewStep("texture", outcome, "pump", new_log_after_texture(Built.context))

\* sdl_context.event_pump().map_err(map_str)?
EventPump(outcome) ==
    /\ pc = "pump"
    /\ pc' = IF outcome = "Ok" THEN "events" ELSE "failed"
    /\ ret' = IF outcome = "Ok" THEN Ok ELSE Err
    /\ call' = [op |-> "event_pump", id |-> 0]
    /\ device_log' = <<>>
    /\ UNCHANGED <<engine, last_update, registry, ref, removed, freed_order,
                   peak_live, keys>>

ApplyEngine(out) ==
    /\ context' = out.self.context
    /\ camera' = out.self.camera
    /\ depth_texture' = out.self.depth_texture
    /\ ret' = out.ret
    /\ device_log' = out.log
    /\ UNCHANGED <<registry, ref, removed, freed_order, peak_live>>

\* Mutant of PollEvent: events are also taken between update and render.
PollEventLate(event) ==
    /\ pc \in {"events", "render"}
    /\ IF event.type = "Quit"
       THEN /\ pc' = "exited"
            /\ call' = [op |-> "quit", id |-> 0]
            /\ ret' = NoCall
            /\ device_log' = <<>>
            /\ UNCHANGED <<engine, registry, ref, removed, freed_order, peak_live>>
       ELSE IF event.type = "Resized"
       THEN LET new_size == WindowSize(event.width, event.height)
                resized  == resize(Eng, new_size)
                given    == input(resized.self, event)
            IN  /\ ApplyEngine([self |-> given.self, ret |-> resized.ret,
                                log |-> resized.log \o given.log])
                /\ call' = [op |-> "resize", id |-> 0, new_size |-> new_size]
                /\ pc' = pc
       ELSE /\ ApplyEngine(input(Eng, event))
            /\ call' = [op |-> "input", id |-> 0]
            /\ pc' = pc
    /\ UNCHANGED <<last_update, keys>>

\* One event of event_pump.poll_iter(): Quit leaves the loop; a Resized event
\* resizes the engine; every event that does not leave the loop is given to
\* engine.input.
PollEvent(event) ==
    /\ pc = "events"
    /\ IF event.type = "Quit"
       THEN /\ pc' = "exited"
            /\ call' = [op |-> "quit", id |-> 0]
            /\ ret' = NoCall
            /\ device_log' = <<>>
            /\ UNCHANGED <<engine, registry, ref, removed, freed_order, peak_live>>
       ELSE IF event.type = "Resized"
       THEN LET new_size == WindowSize(event.width, event.height)
                resized  == resize(Eng, new_size)
                given    == input(resized.self, event)
            IN  /\ ApplyEngine([self |-> given.self, ret |-> resized.ret,
                                log |-> resized.log \o given.log])
                /\ call' = [op |-> "resize", id |-> 0, new_size |-> new_size]
                /\ pc' = "events"
       ELSE /\ ApplyEngine(input(Eng, event))
            /\ call' = [op |-> "input", id |-> 0]
            /\ pc' = "events"
    /\ UNCHANGED <<last_update, keys>>

\* poll_iter() has no more events.
PollDone ==
    /\ pc = "events"
    /\ pc' = "update"
    /\ UNCHANGED <<engine, registry, call, ret, device_log, ref, removed,
                   freed_order, last_update, keys, peak_live>>

\* engine.update();
Update ==
    /\ pc = "update"
    /\ ApplyEngine(engine_update(Eng))
    /\ call' = [op |-> "update", id |-> 0]
    /\ last_update' = [valid      |-> TRUE,
                       repeat     |-> /\ last_update.valid
                                      /\ last_update.view = camera.view
                                      /\ last_update.projection = camera.projection,
                       view       |-> camera.view,
                       projection |-> camera.projection,
                       data       |-> camera'.buffer]
    /\ pc' = "render"
    /\ UNCHANGED keys

\* engine.render()?; an Err ends main.
Render(to_draw, acquired) ==
    /\ pc = "render"
    /\ ApplyEngine(render(Eng, to_draw, acquired))
    /\ call' = [op |-> "render", id |-> 0, to_draw |-> to_draw,
                acquired |-> acquired]
    /\ pc' = IF ret'.kind = "Ok" THEN "events" ELSE "failed"
    /\ UNCHANGED <<last_update, keys>>

\* main has built its window and calls WgpuEngine::new: no engine yet.
InitMain ==
    /\ InitRegistry
    /\ InitKeys(1)
    /\ context = NoEngine.context
    /\ camera = NoEngine.camera
    /\ depth_texture = NoEngine.depth_texture
    /\ pc = "new"
    /\ last_update = [valid |-> FALSE, repeat |-> FALSE, view |-> Absent,
                      projection |-> Absent, data |-> Absent]

NextFrame ==
    \/ \E outcome \in {"Ok", "Err", "Panic"} : NewSurface(outcome)
    \/ \E outcome \in {"Ok", "Panic"} : NewAdapter(outcome)
    \/ \E outcome \in {"Ok", "Panic"} : NewDevice(outcome)
    \/ \E outcome \in {"Ok", "Err"} : NewTexture(outcome)
    \/ \E outcome \in {"Ok", "Err"} : EventPump(outcome)
    \/ \E event \in Event : PollEvent(event)
    \/ PollDone
    \/ Update
    \/ \E to_draw \in ToDraw : \E acquired \in Acquisition : Render(to_draw, acquired)

SpecFrame == InitMain /\ [][NextFrame]_vars

\* The camera controller: key events and the movement of the camera.

KeyEvent ==
    { [type |-> t, keycode |-> k] : t \in {"KeyDown", "KeyUp"}, k \in Keycodes }
        \cup {[type |-> "MouseMotion", keycode |-> "None"]}

\* The key events of the keys that move the eye.
MoveKeyEvent ==
    { [type |-> t, keycode |-> k] : t \in {"KeyDown", "KeyUp"}, k \in {"W", "S", "A", "D"} }

Speeds == 1 .. MaxSpeed

\* Eyes on the z axis and off every axis, one of them the eye of the camera
\* that WgpuEngine::new builds; the target at the origin.
Eyes == { Vec3(0, 0, z) : z \in 1 .. MaxDist } \cup {Vec3(0, 1, 1), Vec3(0, 3, 10)}

\* The eye has moved at most MaxDist along its line.
InBounds(eye) == Abs(eye.k) <= MaxDist /\ Abs(eye.rot) <= MaxTurns * MaxSpeed

ProcessEvents(event) ==
    /\ controller' = process_events(controller, event).self
    /\ ret' = process_events(controller, event).ret
    /\ call' = [op |-> "process_events", id |-> 0, event |-> event]
    /\ key_down' = IF event.type \in {"KeyDown", "KeyUp"} /\ FlagOf(event.keycode) # "none"
                   THEN [key_down EXCEPT ![FlagOf(event.keycode)] = (event.type = "KeyDown")]
                   ELSE key_down
    /\ held' = IF event.keycode \notin MappedKeycodes THEN held
               ELSE IF event.type = "KeyDown" THEN held \cup {event.keycode}
               ELSE IF event.type = "KeyUp" THEN held \ {event.keycode}
               ELSE held
    /\ device_log' = <<>>
    /\ UNCHANGED <<engine, registry, ref, removed, freed_order, peak_live,
                   pc, last_update>>

\* update_camera; the eye is kept within the model's bounds.
UpdateCamera ==
    /\ InBounds(update_camera(controller, camera).view.eye)
    /\ camera' = update_camera(controller, camera)
    /\ call' = [op |-> "update_camera", id |-> 0]
    /\ ret' = Unit
    /\ device_log' = <<>>
    /\ UNCHANGED <<context, depth_texture, registry, ref, removed, freed_order,
                   peak_live, pc, last_update, keys>>

\* A controller of any speed and a camera that looks from one of Eyes at the
\* origin.
InitController ==
    /\ InitRegistry
    /\ \E eye \in Eyes :
          InitEngine([Built.camera EXCEPT
                         !.view = LookAt_new(eye, Vec3(0, 0, 0), Vec3(0, 1, 0))])
    /\ \E speed \in Speeds : InitKeys(speed)

\* Key events of every key.
NextKeys == \E event \in KeyEvent : ProcessEvents(event)

SpecKeys == Init /\ [][NextKeys]_vars

\* Key events of the keys that move the eye, and movement.
NextMove ==
    \/ \E event \in MoveKeyEvent : ProcessEvents(event)
    \/ UpdateCamera

SpecMove == InitController /\ [][NextMove]_vars

\* The projections: resize called on a projection of either kind.

Dims == 1 .. MaxDim

Projections ==
    { PerspectiveProjection_new(Ratio(w, h), fovy, znear, zfar) :
         w \in Dims, h \in Dims, fovy \in {45, 60},
         znear \in {Ratio(1, 10), Ratio(1, 1)}, zfar \in {100, 1000} }
    \cup
    { OrthographicProjection_new(WindowSize(w, h), znear, zfar) :
         w \in Dims, h \in Dims, znear \in {Ratio(1, 10), Ratio(1, 1)}, zfar \in {100, 1000} }

ResizeProjection(width, height) ==
    /\ camera' = [camera EXCEPT !.projection = projection_resize(@, width, height)]
    /\ call' = [op |-> "projection_resize", id |-> 0, width |-> width, height |-> height]
    /\ ret' = Unit
    /\ device_log' = <<>>
    /\ UNCHANGED <<context, depth_texture, registry, ref, removed, freed_order,
                   peak_live, pc, last_update, keys>>

InitProjection ==
    /\ InitRegistry
    /\ \E projection \in Projections :
          InitEngine([Built.camera EXCEPT !.projection = projection])
    /\ InitKeys(1)

NextProjection == \E width \in Dims : \E height \in Dims : ResizeProjection(width, height)

SpecProjection == InitProjection /\ [][NextProjection]_vars

TypeOK ==
    /\ instances \in Seq(BulkInstance \cup Instance)
    /\ DOMAIN id_to_index \subseteq (IDs \cup BulkIDs)
    /\ ret.kind \in {"None", "Unit", "Ok", "Err", "Panic"}

----------------------------------------------------------------------------
\* The draw call of a registry (DrawModel::draw_instances): the instances it
\* covers are the contiguous slot range 0 .. instances.len() - 1.
DrawInstanceRange == 0 .. (Len(instances) - 1)
DrawInstanceCount == Len(instances)

----------------------------------------------------------------------------
\* Helpers of the properties

Range(s) == { s[k] : k \in DOMAIN s }
Count(s, x) == Cardinality({ k \in DOMAIN s : s[k] = x })
IsPow2(n) == \E k \in 0 .. MaxDoublings : n = 2 ^ k
Doublings(c) == { c * 2 ^ k : k \in 0 .. MaxDoublings }

\* The smallest c * 2^k, k >= 0, that is >= need.
SmallestDoubling(c, need) ==
    CHOOSE v \in Doublings(c) :
        /\ v >= need
        /\ \A w \in Doublings(c) : w >= need => v <= w

\* WgpuEngine::new has returned an engine.
Constructed == context # Absent /\ camera # Absent /\ depth_texture # Absent

IsUpdateOrRemove(c) == c.op \in {"update_instance", "remove_instance"}

----------------------------------------------------------------------------
\* C1: with identities unique at each insert, the live identities of the
\* registry (the keys of id_to_index) are the reference set: an identity is
\* added on each insert and deleted on each successful remove.
C1_LiveSetIsReferenceSet == DOMAIN id_to_index = DOMAIN ref

\* An insert after a removal: one identity live, another removed.
C1_Witness ==
    /\ call.op = "add_instance"
    /\ removed # {}
    /\ DOMAIN ref # {}
    /\ Len(instances) = 2

\* C2: with identities unique at each insert, for every (identity, index) of
\* id_to_index the slot at index holds that identity and the transform last
\* written for it, and the device buffer at offset index * record_size holds
\* the serialization of that transform.
C2_SlotAndMirrorHoldLastWritten ==
    \A id \in DOMAIN id_to_index :
        LET index == id_to_index[id]
        IN  /\ id \in DOMAIN ref
            /\ index < Len(instances)
            /\ instances[index + 1].id = id
            /\ instances[index + 1] = ref[id]
            /\ index * InstanceRawSIZE + InstanceRawSIZE <= instance_buffer.size
            /\ instance_buffer.data[index + 1] = ToRaw(ref[id])

\* Right after a growth of the buffer that re-uploaded a record with a
\* transform other than the zero position.
C2_Witness ==
    /\ call.op = "add_instance"
    /\ Len(device_log) = 4
    /\ device_log[2].call = "create_buffer"
    /\ device_log[3].len > 0
    /\ \E id \in DOMAIN id_to_index :
          /\ id_to_index[id] = 0
          /\ ref[id].position # <<0, 0, 0>>

\* C3: an insert of an identity that is live fails with an error returned to
\* the caller and leaves the registry unchanged.
C3_DuplicateInsertFails ==
    [][ (call'.op = "add_instance" /\ call'.id \in DOMAIN id_to_index)
            => (ret'.kind = "Err" /\ UNCHANGED registry) ]_vars

\* C4: update_instance and remove_instance on an identity that is not live
\* return an error without panicking, issue no device call and leave slots,
\* map, free list and buffer unchanged.
C4_AbsentUpdateRemoveFail ==
    [][ (IsUpdateOrRemove(call') /\ call'.id \notin DOMAIN id_to_index)
            => (ret'.kind = "Err" /\ device_log' = <<>> /\ UNCHANGED registry) ]_vars

\* A remove of an identity that had been removed has failed.
C4_Witness ==
    /\ call.op = "remove_instance"
    /\ call.id \in removed
    /\ ret.kind = "Err"
    /\ device_log = <<>>

\* C5: once identity x is removed, every update or remove of x fails until x
\* is inserted again; that insert succeeds, and then the slot and the device
\* record of x hold the instance inserted.
C5_RemovedStaysAbsentUntilReinsert ==
    [][ \A x \in removed :
          /\ (call'.id = x /\ IsUpdateOrRemove(call'))
                => /\ ret'.kind = "Err"
                   /\ x \in removed'
                   /\ x \notin DOMAIN id_to_index'
          /\ (call'.id = x /\ call'.op = "add_instance")
                => /\ ret'.kind = "Unit"
                   /\ x \in DOMAIN id_to_index'
                   /\ x \notin removed'
                   /\ LET index == id_to_index'[x]
                      IN  /\ instances'[index + 1] = ref'[x]
                          /\ instance_buffer'.data[index + 1] = ToRaw(ref'[x]) ]_vars

\* Identity x is live again with a new transform, while a freed slot still
\* holds x with the transform it had before its removal.
C5_Witness ==
    /\ call.op = "add_instance"
    /\ call.id \in DOMAIN id_to_index
    /\ \E k \in DOMAIN instances :
          /\ instances[k].id = call.id
          /\ k - 1 # id_to_index[call.id]
          /\ instances[k] # ref[call.id]
          /\ instance_buffer.data[id_to_index[call.id] + 1] # ToRaw(instances[k])

\* C6: remove_instance on a live identity returns the instance last written
\* for it, deletes the identity from id_to_index and pushes its slot index on
\* the free list, where it then occurs exactly once.
C6_RemoveReturnsLastWritten ==
    [][ (call'.op = "remove_instance" /\ call'.id \in DOMAIN id_to_index)
            => LET id    == call'.id
                   index == id_to_index[id]
               IN  /\ ret' = OkInstance(ref[id])
                   /\ DOMAIN id_to_index' = (DOMAIN id_to_index) \ {id}
                   /\ remove_idxs' = Append(remove_idxs, index)
                   /\ Count(remove_idxs', index) = 1 ]_vars

\* A second removal has returned an instance with a non-zero position.
C6_Witness ==
    /\ call.op = "remove_instance"
    /\ ret.kind = "Ok"
    /\ ret = OkInstance(instances[remove_idxs[Len(remove_idxs)] + 1])
    /\ ret.instance.position # <<0, 0, 0>>
    /\ Len(remove_idxs) = 2

\* C7: the instance count of the draw call, the slot range
\* 0 .. instances.len(), is the number of live identities, and the range
\* holds no removed slot that is not reused yet.
C7_DrawCountIsLiveCount ==
    /\ DrawInstanceCount = Cardinality(DOMAIN id_to_index)
    /\ \A k \in DrawInstanceRange : k \notin Range(remove_idxs)

\* C8: when the free list is not empty, add_instance puts the identity at the
\* index on top of the free list, and instances.len() and the capacity are
\* unchanged with no buffer created; a slot is appended only when the free
\* list is empty.
C8_InsertReusesFreedSlot ==
    [][ call'.op = "add_instance"
            => IF Len(remove_idxs) > 0
               THEN /\ id_to_index'[call'.id] = remove_idxs[Len(remove_idxs)]
                    /\ remove_idxs' = SubSeq(remove_idxs, 1, Len(remove_idxs) - 1)
                    /\ Len(instances') = Len(instances)
                    /\ instance_buffer'.size = instance_buffer.size
                    /\ \A k \in DOMAIN device_log' : device_log'[k].call = "write_buffer"
               ELSE /\ Len(instances') = Len(instances) + 1
                    /\ id_to_index'[call'.id] = Len(instances)
                    /\ remove_idxs' = remove_idxs ]_vars

\* An insert has reused a freed slot that is not the last slot.
C8_Witness ==
    /\ call.op = "add_instance"
    /\ Len(device_log) = 1
    /\ device_log[1].offset = id_to_index[call.id] * InstanceRawSIZE
    /\ id_to_index[call.id] < Len(instances) - 1
    /\ removed = {}

\* C9: after N inserts of distinct identities and no removal into a fresh
\* registry, the capacity is the smallest InitialBufferSize * 2^k, k >= 0,
\* that is >= N * record_size, and every change of the capacity multiplies it
\* by 2^k, k >= 1.
C9_CapacityIsSmallestDoubling ==
    /\ [](instance_buffer.size =
            SmallestDoubling(InitialBufferSize,
                             Cardinality(DOMAIN ref) * InstanceRawSIZE))
    /\ [][ instance_buffer'.size # instance_buffer.size
              => instance_buffer'.size \in (Doublings(instance_buffer.size)
                                              \ {instance_buffer.size}) ]_vars

\* Three identities inserted: 192 bytes are needed and the capacity is 256.
C9_Witness ==
    /\ call.op = "add_instance"
    /\ Cardinality(DOMAIN ref) = 3
    /\ Len(instances) = 3
    /\ instance_buffer.size = 4 * InstanceRawSIZE

\* C10, as claimed: in every reachable state, the fresh one included, the
\* capacity is a power-of-two number of whole records and is >=
\* instances.len() * record_size.
C10_CapacityPowerOfTwoRecords ==
    /\ instance_buffer.size % InstanceRawSIZE = 0
    /\ IsPow2(instance_buffer.size \div InstanceRawSIZE)
    /\ instance_buffer.size >= Len(instances) * InstanceRawSIZE

\* C10, amended: the capacity is >= instances.len() * record_size and is
\* InitialBufferSize * 2^k; it is a power-of-two number of whole records in
\* every state with at least one slot, and InitialBufferSize bytes, less than
\* one record, before the first insert.
C10_CapacityAmended ==
    /\ instance_buffer.size >= Len(instances) * InstanceRawSIZE
    /\ instance_buffer.size \in Doublings(InitialBufferSize)
    /\ Len(instances) >= 1
          => /\ instance_buffer.size % InstanceRawSIZE = 0
             /\ IsPow2(instance_buffer.size \div InstanceRawSIZE)
    /\ Len(instances) = 0 => instance_buffer.size = InitialBufferSize

\* Three slots, one of them freed, in a buffer of four records.
C10_Witness ==
    /\ Len(instances) = 3
    /\ Len(remove_idxs) > 0
    /\ instance_buffer.size = 4 * InstanceRawSIZE

----------------------------------------------------------------------------
\* C11: the slot index of a live identity does not change from its insert to
\* its remove: after every step an identity that was live is either the one
\* the step removed or still live at the same index, whatever the step did
\* to other identities and to the buffer.
C11_LiveIndexIsStable ==
    [][ \A id \in DOMAIN id_to_index :
            \/ (call'.op = "remove_instance" /\ call'.id = id)
            \/ (id \in DOMAIN id_to_index' /\ id_to_index'[id] = id_to_index[id]) ]_vars

\* A third insert has grown the buffer while two identities were live.
C11_Witness ==
    /\ call.op = "add_instance"
    /\ Len(device_log) = 4
    /\ device_log[2] = LogCreate(4 * InstanceRawSIZE)
    /\ Cardinality(DOMAIN id_to_index) = 3
    /\ id_to_index[call.id] = 2

\* C12: update_instance on a live identity overwrites only the slot of that
\* identity and issues exactly one device call, a write of one record at
\* offset index * record_size; the map, the free list, instances.len(), the
\* other slots, the other records and the capacity are unchanged.
C12_UpdateWritesOneRecord ==
    [][ (call'.op = "update_instance" /\ call'.id \in DOMAIN id_to_index)
            => LET id     == call'.id
                   index  == id_to_index[id]
                   offset == index * InstanceRawSIZE
               IN  /\ ret' = Ok
                   /\ device_log' = <<[call |-> "write_buffer", offset |-> offset,
                                       len |-> InstanceRawSIZE]>>
                   /\ id_to_index' = id_to_index
                   /\ remove_idxs' = remove_idxs
                   /\ Len(instances') = Len(instances)
                   /\ instances'[index + 1] = ref'[id]
                   /\ \A k \in DOMAIN instances :
                         k # index + 1 => instances'[k] = instances[k]
                   /\ instance_buffer'.size = instance_buffer.size
                   /\ DOMAIN instance_buffer'.data = DOMAIN instance_buffer.data
                   /\ instance_buffer'.data[index + 1] = ToRaw(ref'[id])
                   /\ \A k \in DOMAIN instance_buffer.data :
                         k # index + 1
                            => instance_buffer'.data[k] = instance_buffer.data[k] ]_vars

\* The identity at slot 1 has been updated to a transform that differs from
\* the one slot 0 holds.
C12_Witness ==
    /\ call.op = "update_instance"
    /\ ret.kind = "Ok"
    /\ id_to_index[call.id] = 1
    /\ device_log[1].offset = InstanceRawSIZE
    /\ instances[1] # instances[2]
    /\ instance_buffer.data[1] # instance_buffer.data[2]

\* C17: the capacity never decreases; update, remove and an insert that
\* reuses a freed slot leave it unchanged; an appending insert changes it only
\* when (instances.len() + 1) * record_size exceeds it, and then to the old
\* capacity times 2^k for the least k >= 1 that fits the new record.
C17_CapacityGrowsByLeastDoubling ==
    [][ LET old  == instance_buffer.size
            cap  == instance_buffer'.size
            need == (Len(instances) + 1) * InstanceRawSIZE
        IN  /\ cap >= old
            /\ call'.op # "add_instance" => cap = old
            /\ (call'.op = "add_instance" /\ Len(remove_idxs) > 0) => cap = old
            /\ (call'.op = "add_instance" /\ Len(remove_idxs) = 0)
                  => IF need > old
                     THEN /\ cap \in Doublings(old) \ {old}
                          /\ cap >= need
                          /\ cap \div 2 < need
                     ELSE cap = old ]_vars

\* The third insert has grown the capacity from two records to four.
C17_WitnessGrowth ==
    /\ call.op = "add_instance"
    /\ Len(instances) = 3
    /\ LogCreate(4 * InstanceRawSIZE) \in Range(device_log)
    /\ instance_buffer.size = 4 * InstanceRawSIZE

\* The fourth insert has appended a slot into the capacity of four records
\* that the third insert grew to, and has created no buffer.
C17_Witness ==
    /\ call.op = "add_instance"
    /\ Len(instances) = 4
    /\ id_to_index[call.id] = 3
    /\ instance_buffer.size = 4 * InstanceRawSIZE
    /\ \A k \in DOMAIN device_log : device_log[k].call # "create_buffer"

\* C18: an insert that does not grow the buffer issues exactly one device
\* call, a write of the new record at its slot offset, and changes no other
\* record; an insert that grows the buffer creates the new buffer, writes the
\* records of all slots that existed at offset 0 and then the new record at
\* offset (old instances.len()) * record_size.
C18_InsertWrites ==
    [][ call'.op = "add_instance"
            => LET id    == call'.id
                   index == id_to_index'[id]
                   n     == Len(instances)
                   grows == /\ Len(remove_idxs) = 0
                            /\ (n + 1) * InstanceRawSIZE > instance_buffer.size
               IN  IF ~grows
                   THEN /\ device_log' =
                              <<[call |-> "write_buffer",
                                 offset |-> index * InstanceRawSIZE,
                                 len |-> InstanceRawSIZE]>>
                        /\ instance_buffer'.data[index + 1] = ToRaw(ref'[id])
                        /\ \A k \in DOMAIN instance_buffer.data :
                              k # index + 1
                                 => instance_buffer'.data[k] = instance_buffer.data[k]
                   ELSE /\ device_log' =
                              <<LogDestroy,
                                LogCreate(instance_buffer'.size),
                                [call |-> "write_buffer", offset |-> 0,
                                 len |-> n * InstanceRawSIZE],
                                [call |-> "write_buffer",
                                 offset |-> n * InstanceRawSIZE,
                                 len |-> InstanceRawSIZE]>>
                        /\ index = n
                        /\ \A k \in 1 .. n :
                              instance_buffer'.data[k] = ToRaw(instances[k])
                        /\ instance_buffer'.data[n + 1] = ToRaw(ref'[id]) ]_vars

\* The second insert has grown the buffer and re-uploaded a record that is
\* not the record inserted.
C18_WitnessGrowth ==
    /\ call.op = "add_instance"
    /\ Len(device_log) = 4
    /\ device_log[3].len = InstanceRawSIZE
    /\ device_log[4].offset = InstanceRawSIZE
    /\ instance_buffer.data[1] # instance_buffer.data[2]

\* The fourth insert is an append that fits: it has issued the one write of
\* its record at the offset of slot 3, beside a record that is not its own.
C18_Witness ==
    /\ call.op = "add_instance"
    /\ Len(instances) = 4
    /\ id_to_index[call.id] = 3
    /\ device_log = <<[call |-> "write_buffer", offset |-> 3 * InstanceRawSIZE,
                       len |-> InstanceRawSIZE]>>
    /\ instance_buffer.data[4] = ToRaw(instances[4])
    /\ instance_buffer.data[3] # instance_buffer.data[4]

\* C19: a successful remove_instance issues no device call and leaves the
\* slot vector and the device buffer as they were, the removed slot included;
\* the slot and the record of a free index do not change while the index
\* stays on the free list.
C19_RemoveLeavesSlotsAndBytes ==
    [][ /\ (call'.op = "remove_instance" /\ ret'.kind = "Ok")
              => /\ device_log' = <<>>
                 /\ instances' = instances
                 /\ instance_buffer' = instance_buffer
        /\ \A index \in Range(remove_idxs) \cap Range(remove_idxs') :
              /\ instances'[index + 1] = instances[index + 1]
              /\ instance_buffer'.data[index + 1] = instance_buffer.data[index + 1] ]_vars

\* An update of the other identity has happened after a removal, and the
\* freed slot still holds the removed identity with its non-zero transform.
C19_Witness ==
    /\ call.op = "update_instance"
    /\ ret.kind = "Ok"
    /\ Len(remove_idxs) = 1
    /\ LET index == remove_idxs[1]
       IN  /\ instances[index + 1].id \in removed
           /\ instances[index + 1].position # <<0, 0, 0>>
           /\ instance_buffer.data[index + 1] = ToRaw(instances[index + 1])

\* C20: freed slots are reused last in, first out: an insert made while slots
\* are free receives the slot whose removal is the most recent among the free
\* slots, and the slots freed before it stay free in their order.
C20_FreedSlotsReusedLifo ==
    [][ (call'.op = "add_instance" /\ freed_order # <<>>)
            => /\ id_to_index'[call'.id] = freed_order[Len(freed_order)]
               /\ freed_order' = SubSeq(freed_order, 1, Len(freed_order) - 1) ]_vars

\* Two of three freed slots have been reused: the slot freed first is the
\* one still free.
C20_Witness ==
    /\ call.op = "add_instance"
    /\ Len(instances) = 3
    /\ Cardinality(DOMAIN id_to_index) = 2
    /\ Len(freed_order) = 1
    /\ removed # {}
    /\ \E id \in removed : \E k \in DOMAIN instances :
          instances[k].id = id /\ freed_order[1] = k - 1

----------------------------------------------------------------------------
\* C13: a failure of the surface-image acquisition during render is
\* recoverable: the render call that fails does not end the frame loop or the
\* process, and the surface is reconfigured so that a later frame can be
\* attempted.
C13_AcquisitionFailureIsRecoverable ==
    [][ (call'.op = "render" /\ ret'.kind = "Err")
            => /\ pc' \notin {"failed", "exited"}
               /\ \E k \in DOMAIN device_log' : device_log'[k].call = "configure" ]_vars

\* C14: resize with width = 0 or height = 0 is a no-op: the stored size, the
\* surface configuration, the projection, the rest of the camera and the
\* depth texture are unchanged and the surface is not reconfigured.
C14_ZeroResizeIsNoOp ==
    [][ (call'.op = "resize"
            /\ (call'.new_size.width = 0 \/ call'.new_size.height = 0))
            => /\ context' = context
               /\ camera' = camera
               /\ depth_texture' = depth_texture
               /\ device_log' = <<>> ]_vars

\* resize({0, 600}) has been called and the {801, 600} configuration is in
\* place.
C14_Witness ==
    /\ call.op = "resize"
    /\ call.new_size = WindowSize(0, WindowHeight)
    /\ context.size = WindowSize(WindowWidth, WindowHeight)
    /\ context.config = [width |-> WindowWidth, height |-> WindowHeight]
    /\ context.surface = context.config

\* C15: after construction and after any sequence of resize calls the depth
\* texture has the dimensions of the surface configuration, which are those
\* the surface was configured with and those of the stored window size, and
\* the projection has the aspect of those dimensions.
C15_SizesAgree ==
    /\ pc \in {"pump", "events", "update", "render", "exited"} => Constructed
    /\ Constructed
         => /\ depth_texture.width = context.config.width
            /\ depth_texture.height = context.config.height
            /\ context.surface = context.config
            /\ context.size.width = context.config.width
            /\ context.size.height = context.config.height
            /\ context.size.width > 0
            /\ context.size.height > 0
            /\ camera.projection.aspect =
                  Ratio(context.size.width, context.size.height)

\* A frame is about to be rendered after the window was resized in both
\* dimensions.
C15_Witness ==
    /\ pc = "render"
    /\ context.size.width # WindowWidth
    /\ context.size.height # WindowHeight
    /\ depth_texture = [width |-> context.size.width, height |-> context.size.height]

\* C16: every Camera::update issues exactly one write of the uniform buffer,
\* at offset 0, of the serialization of proj_matrix() * view_mat(); when the
\* view and the projection are those of the previous update the data written
\* is the data the previous update wrote.
C16_CameraUpdateIdempotent ==
    [][ call'.op = "update"
            => LET data == cast_slice(<<[view_proj |->
                              Mat4Into(Mat4Mul(proj_matrix(camera.projection),
                                               view_mat(camera.view)))]>>)
               IN  /\ Len(device_log') = 1
                   /\ device_log'[1].call = "write_buffer"
                   /\ device_log'[1].buffer = "camera"
                   /\ device_log'[1].offset = 0
                   /\ device_log'[1].len = CameraUniformSIZE
                   /\ device_log'[1].data = data
                   /\ camera'.buffer = data
                   /\ (last_update.valid
                         /\ last_update.view = camera.view
                         /\ last_update.projection = camera.projection)
                        => device_log'[1].data = last_update.data ]_vars

\* A second update has run with the view and the projection of the first and
\* has written again.
C16_Witness ==
    /\ call.op = "update"
    /\ last_update.repeat
    /\ Len(device_log) = 1
    /\ device_log[1].data = camera.buffer

----------------------------------------------------------------------------
\* C21: a render call whose acquisition succeeds begins one render pass that
\* clears colour and depth, binds the pipeline, issues one draw per registry
\* of to_draw in list order, ends the pass, submits once and presents once
\* after the submission; a render call whose acquisition fails begins no
\* pass and submits and presents nothing.
C21_RenderStepOrder ==
    [][ call'.op = "render"
            => LET log     == device_log'
                   calls   == [k \in DOMAIN log |-> log[k].call]
                   to_draw == call'.to_draw
                   n       == Len(to_draw)
               IN  IF call'.acquired = "Ok"
                   THEN /\ ret'.kind = "Ok"
                        /\ calls = <<"get_current_texture", "create_view",
                                     "create_command_encoder", "begin_render_pass",
                                     "set_pipeline">>
                                   \o [k \in 1 .. n |-> "draw_instances"]
                                   \o <<"end_render_pass", "submit", "present">>
                        /\ log[4].clear_color =
                              <<Ratio(1, 10), Ratio(2, 10), Ratio(3, 10), 1>>
                        /\ log[4].clear_depth = 1
                        /\ log[4].depth = depth_texture
                        /\ \A k \in 1 .. n : log[5 + k].registry = to_draw[k]
                        /\ log[n + 7].command_buffers = 1
                   ELSE /\ ret'.kind = "Err"
                        /\ calls = <<"get_current_texture">> ]_vars

\* A frame with two registries in the order b, a has been rendered.
C21_Witness ==
    /\ call.op = "render"
    /\ call.acquired = "Ok"
    /\ call.to_draw = <<"b", "a">>
    /\ Len(device_log) = 10
    /\ device_log[10].call = "present"

\* A render call has failed to acquire the surface image.
C21_WitnessFailed ==
    /\ call.op = "render"
    /\ call.acquired = "Outdated"
    /\ ret.kind = "Err"

----------------------------------------------------------------------------
\* C22: go_forward(speed) moves the eye by exactly |speed| along the
\* normalized direction from the eye to the target, away from the target for
\* a negative speed, whatever the remaining distance d > 0: an update_camera
\* with only the forward flag set adds speed * direction to the eye, one with
\* only the backward flag set subtracts it.
C22_GoForwardMovesBySpeed ==
    [][ (/\ call'.op = "update_camera"
         /\ controller.is_forward_pressed # controller.is_backward_pressed
         /\ ~controller.is_left_pressed
         /\ ~controller.is_right_pressed
         /\ ~camera.view.eye.nan
         /\ ~IsZero(Vec3Sub(camera.view.target, camera.view.eye)))
            => LET view      == camera.view
                   direction == normalized(Vec3Sub(view.target, view.eye))
                   speed     == IF controller.is_forward_pressed
                                THEN controller.speed
                                ELSE -controller.speed
               IN  camera'.view.eye =
                      Vec3Add(view.eye, Vec3Scale(direction, speed)) ]_vars

\* C28: process_events returns true exactly for the KeyDown and KeyUp events
\* of a mapped key and otherwise returns false and leaves the controller as
\* it was; each flag is true iff the last KeyDown or KeyUp among the keys
\* mapped to it was a KeyDown.
C28_FlagsFollowLastKeyEvent ==
    /\ [](\A flag \in Flags : controller[flag] = key_down[flag])
    /\ [][ call'.op = "process_events"
              => LET event  == call'.event
                     mapped == /\ event.type \in {"KeyDown", "KeyUp"}
                               /\ event.keycode \in MappedKeycodes
                 IN  /\ ret' = Bool(mapped)
                     /\ ~mapped => controller' = controller
                     /\ controller'.speed = controller.speed ]_vars

\* Up has been released while W is still held, and the forward flag is
\* clear.
C28_Witness ==
    /\ call.op = "process_events"
    /\ call.event = [type |-> "KeyUp", keycode |-> "Up"]
    /\ ret = Bool(TRUE)
    /\ "W" \in held
    /\ ~controller.is_forward_pressed

\* C23: Projection.resize changes only the parameters derived from the size:
\* the orthographic projection gets right = width and top = height and keeps
\* left = 0, bottom = 0, near and far; the perspective projection gets
\* aspect = width / height and keeps fov, near and far.
C23_ResizeChangesSizeParametersOnly ==
    [][ call'.op = "projection_resize"
            => LET p      == camera.projection
                   q      == camera'.projection
                   width  == call'.width
                   height == call'.height
               IN  IF p.kind = "Orthographic"
                   THEN /\ q.kind = "Orthographic"
                        /\ q.right = width
                        /\ q.top = height
                        /\ q.left = 0
                        /\ q.bottom = 0
                        /\ q.znear = p.znear
                        /\ q.zfar = p.zfar
                   ELSE /\ q.kind = "Perspective"
                        /\ q.aspect = Ratio(width, height)
                        /\ q.fovy = p.fovy
                        /\ q.znear = p.znear
                        /\ q.zfar = p.zfar ]_vars

\* An orthographic projection has been resized to a size that is not square.
C23_Witness ==
    /\ call.op = "projection_resize"
    /\ camera.projection.kind = "Orthographic"
    /\ call.width # call.height
    /\ camera.projection.right = call.width
    /\ camera.projection.top = call.height
    /\ camera.projection.zfar = 1000

\* A perspective projection has been resized to a size that is not square.
C23_WitnessPerspective ==
    /\ call.op = "projection_resize"
    /\ camera.projection.kind = "Perspective"
    /\ camera.projection.aspect = Ratio(3, 2)
    /\ camera.projection.fovy = [to_radians |-> 60]

\* C24: in every iteration of the frame loop the events are applied before
\* update, update is called once, and render follows it: the size, the view
\* and the projection change only while events are polled, the step after
\* the polling is the one update and the step after that the render, so
\* every render finds in the uniform buffer the data of the view and the
\* projection it renders with.
C24_EventsThenUpdateThenRender ==
    /\ [](pc = "render"
            => /\ call.op = "update"
               /\ camera.buffer =
                     cast_slice(<<[view_proj |->
                        Mat4Into(Mat4Mul(proj_matrix(camera.projection),
                                         view_mat(camera.view)))]>>))
    /\ [][ /\ (/\ pc \in {"events", "update", "render"}
               /\ (\/ camera'.view # camera.view
                   \/ camera'.projection # camera.projection
                   \/ context' # context
                   \/ depth_texture' # depth_texture))
              => (pc = "events" /\ pc' = "events")
           /\ pc = "events" => pc' \in {"events", "update", "exited"}
           /\ pc = "update"
              => /\ pc' = "render"
                 /\ call.op # "update"
                 /\ call'.op = "update"
                 /\ Len(device_log') = 1
           /\ pc = "render"
              => /\ pc' \in {"events", "failed"}
                 /\ call'.op = "render" ]_vars

\* A frame is about to be rendered whose iteration resized the window, and
\* the uniform buffer holds the data of the new aspect.
C24_Witness ==
    /\ pc = "render"
    /\ last_update.valid
    /\ ~last_update.repeat
    /\ camera.projection.aspect = Ratio(640, 480)
    /\ last_update.projection = camera.projection
    /\ last_update.data = camera.buffer

----------------------------------------------------------------------------
\* C25: with identities unique at each insert, the slot indices
\* 0 .. instances.len() - 1 are partitioned between the map and the free
\* list: each index is the slot of exactly one live identity and not free, or
\* occurs exactly once in the free list and is the slot of no identity; so
\* instances.len() = |id_to_index| + |remove_idxs|.
C25_SlotsPartitioned ==
    /\ \A index \in 0 .. (Len(instances) - 1) :
          LET owners == { id \in DOMAIN id_to_index : id_to_index[id] = index }
              free   == Count(remove_idxs, index)
          IN  \/ (Cardinality(owners) = 1 /\ free = 0)
              \/ (owners = {} /\ free = 1)
    /\ \A id \in DOMAIN id_to_index : id_to_index[id] \in 0 .. (Len(instances) - 1)
    /\ \A k \in DOMAIN remove_idxs : remove_idxs[k] \in 0 .. (Len(instances) - 1)
    /\ Len(instances) = Cardinality(DOMAIN id_to_index) + Len(remove_idxs)

\* An insert has reused one of two freed slots: one slot is live, the other
\* is free.
C25_Witness ==
    /\ call.op = "add_instance"
    /\ Len(instances) = 2
    /\ Cardinality(DOMAIN id_to_index) = 1
    /\ Len(remove_idxs) = 1
    /\ id_to_index[call.id] # remove_idxs[1]

\* C26: every device write of the registry lies inside the buffer that is
\* current when it is issued, offset + length <= capacity, for the record
\* writes of insert and update and for the re-upload on growth; every index
\* in the map or on the free list is < instances.len(), so no call panics.
C26_WritesInsideBuffer ==
    /\ [](/\ ret.kind # "Panic"
          /\ \A id \in DOMAIN id_to_index : id_to_index[id] < Len(instances)
          /\ \A k \in DOMAIN remove_idxs : remove_idxs[k] < Len(instances))
    /\ [][ \A k \in DOMAIN device_log' :
              device_log'[k].call = "write_buffer"
                 => /\ device_log'[k].offset >= 0
                    /\ device_log'[k].offset + device_log'[k].len
                          <= instance_buffer'.size ]_vars

\* An insert of a live identity has appended the fourth slot and written its
\* record at the end of the buffer of four records.
C26_WitnessFull ==
    /\ call.op = "add_instance"
    /\ Len(instances) = 4
    /\ id_to_index[call.id] = 3
    /\ \E k \in 1 .. 3 : instances[k].id = call.id
    /\ Len(device_log) = 1
    /\ device_log[1].offset + device_log[1].len = instance_buffer.size

\* The first insert has replaced the 4-byte buffer and written its record
\* into the new one.
C26_Witness ==
    /\ call.op = "add_instance"
    /\ Len(instances) = 1
    /\ Len(device_log) = 4
    /\ device_log[2] = LogCreate(InstanceRawSIZE)
    /\ device_log[4].offset = 0
    /\ device_log[4].len = InstanceRawSIZE
    /\ instance_buffer.size = InstanceRawSIZE

\* C27: with identities unique at each insert, instances.len() never
\* decreases and is the largest number of identities that were live at once,
\* and the capacity is the one that this peak needs.
C27_LenIsPeakLive ==
    /\ [](/\ Len(instances) = peak_live
          /\ instance_buffer.size =
                SmallestDoubling(InitialBufferSize, peak_live * InstanceRawSIZE))
    /\ [][ Len(instances') >= Len(instances) ]_vars

\* After a peak of three live identities and removals, an insert has left
\* the length at three.
C27_Witness ==
    /\ call.op = "add_instance"
    /\ peak_live = 3
    /\ Len(instances) = 3
    /\ Cardinality(DOMAIN id_to_index) = 2
    /\ Len(device_log) = 1

====
